---- MODULE Spec2Model ----
(***************************************************************************)
(* A model of the line-delimited JSON-RPC server of linkedin-mcp-server:   *)
(* MCPServer.run / handle_message / invoke_tool (src/src/mcp_server.py)    *)
(* over LinkedInClient (src/src/linkedin_client.py).                       *)
(*                                                                         *)
(* Text is a sequence of symbols.  A symbol is one character with a        *)
(* syntactic role (a quote, a brace, a digit, a blank ...) or an opaque    *)
(* word made of characters that need no escaping in JSON and that are not  *)
(* digits, blanks or JSON punctuation.  Python values are tagged records   *)
(* of one shape, so that any two of them can be compared.                  *)
(***************************************************************************)
EXTENDS Integers, Sequences, FiniteSets, TLC

-----------------------------------------------------------------------------
(* Python values *)

None == [t |-> "none", n |-> 0, s |-> <<>>, k |-> <<>>, c |-> <<>>]
PyBool(b) == [t |-> "bool", n |-> IF b THEN 1 ELSE 0, s |-> <<>>, k |-> <<>>, c |-> <<>>]
PyInt(i) == [t |-> "int", n |-> i, s |-> <<>>, k |-> <<>>, c |-> <<>>]
PyStr(txt) == [t |-> "str", n |-> 0, s |-> txt, k |-> <<>>, c |-> <<>>]
PyList(items) == [t |-> "list", n |-> 0, s |-> <<>>, k |-> <<>>, c |-> items]
PyDict(keys, vals) == [t |-> "dict", n |-> 0, s |-> <<>>, k |-> keys, c |-> vals]

\* a one-word string, and the dict {}
Word(w) == PyStr(<<w>>)
EmptyDict == PyDict(<<>>, <<>>)

\* bool(v): the truth value Python gives v (the `or` of lines 61 and 198)
Truthy(v) ==
    CASE v.t = "none" -> FALSE
      [] v.t = "bool" -> v.n = 1
      [] v.t = "int"  -> v.n # 0
      [] v.t = "str"  -> Len(v.s) > 0
      [] v.t = "list" -> Len(v.c) > 0
      [] v.t = "dict" -> Len(v.k) > 0

\* key in d, d[key], d.get(key, default) and d[key] = val for a dict d
DictHas(d, key) == \E i \in 1..Len(d.k) : d.k[i] = key
DictIdx(d, key) == CHOOSE i \in 1..Len(d.k) : d.k[i] = key
DictGet(d, key, default) == IF DictHas(d, key) THEN d.c[DictIdx(d, key)] ELSE default
DictSet(d, key, val) ==
    IF DictHas(d, key)
    THEN PyDict(d.k, [d.c EXCEPT ![DictIdx(d, key)] = val])
    ELSE PyDict(Append(d.k, key), Append(d.c, val))

\* part in whole, for two texts
IsInfix(part, whole) ==
    \E i \in 0..(Len(whole) - Len(part)) :
        \A j \in 1..Len(part) : whole[i + j] = part[j]

-----------------------------------------------------------------------------
(* str(int) and int(str) over decimal digits *)

Digits == <<"0", "1", "2", "3", "4", "5", "6", "7", "8", "9">>
DigitSet == {Digits[i] : i \in 1..10}
DigitVal(ch) == (CHOOSE i \in 1..10 : Digits[i] = ch) - 1

RECURSIVE NatToStr(_)
NatToStr(n) ==
    IF n < 10 THEN <<Digits[n + 1]>>
    ELSE Append(NatToStr(n \div 10), Digits[(n % 10) + 1])

IntToStr(i) == IF i < 0 THEN <<"-">> \o NatToStr(0 - i) ELSE NatToStr(i)

-----------------------------------------------------------------------------
(* json.dumps with the defaults: separators ", " and ": ", ensure_ascii *)

\* the escapes json.dumps writes (ESCAPE_ASCII): one character -> its escape
\* "<e9>" stands for the non-ASCII character U+00E9
EscapeChar(ch) ==
    CASE ch = "\"" -> <<"\\", "\"">>
      [] ch = "\\" -> <<"\\", "\\">>
      [] ch = "\n" -> <<"\\", "n">>
      [] ch = "\r" -> <<"\\", "r">>
      [] ch = "\t" -> <<"\\", "t">>
      [] ch = "<e9>" -> <<"\\", "u", "0", "0", "e", "9">>
      [] OTHER -> <<ch>>

\* the escapes of txt[i..], in order
RECURSIVE EscapeFrom(_, _)
EscapeFrom(txt, i) ==
    IF i > Len(txt) THEN <<>> ELSE EscapeChar(txt[i]) \o EscapeFrom(txt, i + 1)

EncodeString(txt) == <<"\"">> \o EscapeFrom(txt, 1) \o <<"\"">>

\* DumpItems and DumpPairs: the items from the i-th on, ", " between them
RECURSIVE json_dumps(_), DumpItems(_, _), DumpPairs(_, _)
json_dumps(v) ==
    CASE v.t = "none" -> <<"null">>
      [] v.t = "bool" -> IF v.n = 1 THEN <<"true">> ELSE <<"false">>
      [] v.t = "int"  -> IntToStr(v.n)
      [] v.t = "str"  -> EncodeString(v.s)
      [] v.t = "list" -> <<"[">> \o DumpItems(v.c, 1) \o <<"]">>
      [] v.t = "dict" -> <<"{">> \o DumpPairs(v, 1) \o <<"}">>

DumpItems(items, i) ==
    IF i > Len(items) THEN <<>>
    ELSE (IF i > 1 THEN <<",", " ">> ELSE <<>>)
         \o json_dumps(items[i]) \o DumpItems(items, i + 1)

DumpPairs(d, i) ==
    IF i > Len(d.k) THEN <<>>
    ELSE (IF i > 1 THEN <<",", " ">> ELSE <<>>)
         \o EncodeString(d.k[i]) \o <<":", " ">> \o json_dumps(d.c[i])
         \o DumpPairs(d, i + 1)

-----------------------------------------------------------------------------
(* json.loads: the scanner of the standard decoder, integers only *)

Whitespace == {" ", "\t", "\n", "\r"}
ControlChars == {"\n", "\r", "\t"}

Parsed(v, i) == [ok |-> TRUE, v |-> v, i |-> i, err |-> ""]
ParseError(msg) == [ok |-> FALSE, v |-> None, i |-> 0, err |-> msg]

\* one round of a scanning loop: the loop ends (with err, if not "") or goes
\* on at txt[i]; acc is what the loop has read so far
Ends(acc, i) == [end |-> TRUE, err |-> "", acc |-> acc, i |-> i]
Fails(msg) == [end |-> TRUE, err |-> msg, acc |-> None, i |-> 0]
GoesOn(acc, i) == [end |-> FALSE, err |-> "", acc |-> acc, i |-> i]

RECURSIVE SkipWs(_, _)
SkipWs(txt, i) ==
    IF i <= Len(txt) /\ txt[i] \in Whitespace THEN SkipWs(txt, i + 1) ELSE i

\* BACKSLASH of json.decoder: the character after a backslash -> what it means
Backslash(ch) ==
    CASE ch = "\"" -> "\""
      [] ch = "\\" -> "\\"
      [] ch = "/" -> "/"
      [] ch = "n" -> "\n"
      [] ch = "r" -> "\r"
      [] ch = "t" -> "\t"
      [] OTHER -> "<none>"

\* \uXXXX for the code points the model writes
UnicodeEscape(quad) ==
    CASE quad = <<"0", "0", "e", "9">> -> "<e9>"
      [] quad = <<"0", "0", "4", "1">> -> "A"
      [] OTHER -> "<none>"

\* STRINGCHUNK: the end of the run of symbols that are no quote, no backslash
\* and no control character
RECURSIVE SkipPlain(_, _)
SkipPlain(txt, i) ==
    IF i <= Len(txt) /\ txt[i] \notin ({"\"", "\\"} \cup ControlChars)
    THEN SkipPlain(txt, i + 1) ELSE i

\* one round of py_scanstring: a chunk and the terminator after it
StringStep(txt, i, acc) ==
    LET j == SkipPlain(txt, i)
        chunks == acc \o SubSeq(txt, i, j - 1)
    IN  IF j > Len(txt) THEN Fails("Unterminated string starting at")
        ELSE IF txt[j] = "\"" THEN Ends(chunks, j + 1)
        ELSE IF txt[j] \in ControlChars THEN Fails("Invalid control character at")
        ELSE IF j + 1 > Len(txt) THEN Fails("Unterminated string starting at")
        ELSE IF txt[j + 1] = "u"
        THEN IF j + 5 > Len(txt)
                \/ UnicodeEscape(SubSeq(txt, j + 2, j + 5)) = "<none>"
             THEN Fails("Invalid \\uXXXX escape")
             ELSE GoesOn(Append(chunks, UnicodeEscape(SubSeq(txt, j + 2, j + 5))),
                         j + 6)
        ELSE IF Backslash(txt[j + 1]) = "<none>" THEN Fails("Invalid \\escape")
        ELSE GoesOn(Append(chunks, Backslash(txt[j + 1])), j + 2)

\* the loop of py_scanstring, after the round st
RECURSIVE StringLoop(_, _)
StringLoop(txt, st) ==
    IF ~st.end THEN StringLoop(txt, StringStep(txt, st.i, st.acc))
    ELSE IF st.err # "" THEN ParseError(st.err)
    ELSE Parsed(PyStr(st.acc), st.i)

\* py_scanstring: txt[i] is the first symbol after the opening quote
ScanString(txt, i) == StringLoop(txt, StringStep(txt, i, <<>>))

\* the digits of NUMBER_RE after the first: [1-9]\d*
RECURSIVE ScanDigits(_, _, _)
ScanDigits(txt, i, acc) ==
    IF i <= Len(txt) /\ txt[i] \in DigitSet
    THEN ScanDigits(txt, i + 1, acc * 10 + DigitVal(txt[i]))
    ELSE [n |-> acc, i |-> i]

\* NUMBER_RE: -?(0|[1-9]\d*); txt[i] is "-" or a digit
ScanNumber(txt, i) ==
    LET neg == txt[i] = "-"
        j == IF neg THEN i + 1 ELSE i
    IN IF j > Len(txt) \/ txt[j] \notin DigitSet THEN ParseError("Expecting value")
       ELSE IF txt[j] = "0" THEN Parsed(PyInt(0), j + 1)
       ELSE LET d == ScanDigits(txt, j, 0)
            IN Parsed(PyInt(IF neg THEN 0 - d.n ELSE d.n), d.i)

RECURSIVE ScanOnce(_, _), ArrayStep(_, _, _), ObjectStep(_, _, _),
          ArrayLoop(_, _), ObjectLoop(_, _)
\* scan_once: one value starting at txt[i]
ScanOnce(txt, i) ==
    IF i > Len(txt) THEN ParseError("Expecting value")
    ELSE CASE txt[i] = "\"" -> ScanString(txt, i + 1)
           [] txt[i] = "{" ->
                IF SkipWs(txt, i + 1) <= Len(txt) /\ txt[SkipWs(txt, i + 1)] = "}"
                THEN Parsed(EmptyDict, SkipWs(txt, i + 1) + 1)
                ELSE ObjectLoop(txt, ObjectStep(txt, SkipWs(txt, i + 1), EmptyDict))
           [] txt[i] = "[" ->
                IF SkipWs(txt, i + 1) <= Len(txt) /\ txt[SkipWs(txt, i + 1)] = "]"
                THEN Parsed(PyList(<<>>), SkipWs(txt, i + 1) + 1)
                ELSE ArrayLoop(txt, ArrayStep(txt, SkipWs(txt, i + 1), <<>>))
           [] txt[i] = "null" -> Parsed(None, i + 1)
           [] txt[i] = "true" -> Parsed(PyBool(TRUE), i + 1)
           [] txt[i] = "false" -> Parsed(PyBool(FALSE), i + 1)
           [] txt[i] \in DigitSet \cup {"-"} -> ScanNumber(txt, i)
           [] OTHER -> ParseError("Expecting value")

\* one round of JSONArray: the item at txt[i] and the delimiter after it
ArrayStep(txt, i, acc) ==
    LET item == ScanOnce(txt, i)
        j == SkipWs(txt, item.i)
    IN  IF ~item.ok THEN Fails(item.err)
        ELSE IF j > Len(txt) THEN Fails("Expecting ',' delimiter")
        ELSE IF txt[j] = "]" THEN Ends(Append(acc, item.v), j + 1)
        ELSE IF txt[j] # "," THEN Fails("Expecting ',' delimiter")
        ELSE GoesOn(Append(acc, item.v), SkipWs(txt, j + 1))

\* the loop of JSONArray, after the round st
ArrayLoop(txt, st) ==
    IF ~st.end THEN ArrayLoop(txt, ArrayStep(txt, st.i, st.acc))
    ELSE IF st.err # "" THEN ParseError(st.err)
    ELSE Parsed(PyList(st.acc), st.i)

\* one round of JSONObject: the pair at txt[i] and the delimiter after it;
\* a repeated key keeps its last value
ObjectStep(txt, i, acc) ==
    LET key == ScanString(txt, i + 1)
        c == SkipWs(txt, key.i)
        val == ScanOnce(txt, SkipWs(txt, c + 1))
        j == SkipWs(txt, val.i)
    IN  IF i > Len(txt) \/ txt[i] # "\""
        THEN Fails("Expecting property name enclosed in double quotes")
        ELSE IF ~key.ok THEN Fails(key.err)
        ELSE IF c > Len(txt) \/ txt[c] # ":" THEN Fails("Expecting ':' delimiter")
        ELSE IF ~val.ok THEN Fails(val.err)
        ELSE IF j > Len(txt) THEN Fails("Expecting ',' delimiter")
        ELSE IF txt[j] = "}" THEN Ends(DictSet(acc, key.v.s, val.v), j + 1)
        ELSE IF txt[j] # "," THEN Fails("Expecting ',' delimiter")
        ELSE GoesOn(DictSet(acc, key.v.s, val.v), SkipWs(txt, j + 1))

\* the loop of JSONObject, after the round st
ObjectLoop(txt, st) ==
    IF ~st.end THEN ObjectLoop(txt, ObjectStep(txt, st.i, st.acc))
    ELSE IF st.err # "" THEN ParseError(st.err)
    ELSE Parsed(st.acc, st.i)

\* json.loads(txt): a value, or the JSONDecodeError
json_loads(txt) ==
    LET r == ScanOnce(txt, SkipWs(txt, 1))
    IN IF ~r.ok THEN r
       ELSE IF SkipWs(txt, r.i) # Len(txt) + 1 THEN ParseError("Extra data")
       ELSE r

-----------------------------------------------------------------------------
(* Exceptions, and what str() and repr() make of a value *)

NoExc == [type |-> "", msg |-> <<>>]
Exc(type, msg) == [type |-> type, msg |-> msg]

\* type(v).__name__
TypeName(v) ==
    CASE v.t = "none" -> "NoneType"
      [] v.t = "bool" -> "bool"
      [] v.t = "int"  -> "int"
      [] v.t = "str"  -> "str"
      [] v.t = "list" -> "list"
      [] v.t = "dict" -> "dict"

\* repr(v), for strings that hold no quote and no backslash
RECURSIVE PyRepr(_), ReprItems(_, _), ReprPairs(_, _)
PyRepr(v) ==
    CASE v.t = "none" -> <<"None">>
      [] v.t = "bool" -> IF v.n = 1 THEN <<"True">> ELSE <<"False">>
      [] v.t = "int"  -> IntToStr(v.n)
      [] v.t = "str"  -> <<"'">> \o v.s \o <<"'">>
      [] v.t = "list" -> <<"[">> \o ReprItems(v.c, 1) \o <<"]">>
      [] v.t = "dict" -> <<"{">> \o ReprPairs(v, 1) \o <<"}">>

ReprItems(items, i) ==
    IF i > Len(items) THEN <<>>
    ELSE (IF i > 1 THEN <<",", " ">> ELSE <<>>)
         \o PyRepr(items[i]) \o ReprItems(items, i + 1)

ReprPairs(d, i) ==
    IF i > Len(d.k) THEN <<>>
    ELSE (IF i > 1 THEN <<",", " ">> ELSE <<>>)
         \o <<"'">> \o d.k[i] \o <<"'", ":", " ">> \o PyRepr(d.c[i])
         \o ReprPairs(d, i + 1)

\* format(v) inside an f-string: a string is written as it is
PyFormat(v) == IF v.t = "str" THEN v.s ELSE PyRepr(v)

\* v.get(...) on a value that is no dict
NoGetAttribute(v) ==
    Exc("AttributeError",
        <<"'", TypeName(v), "'", " object has no attribute ", "'", "get", "'">>)

-----------------------------------------------------------------------------
(* LinkedInClient *)

base_url == <<"https://api.linkedin.com">>

\* LinkedInClient._url
Url(path) == base_url \o <<path>>

\* the public methods LinkedInClient defines
ClientMethods ==
    {"get_profile", "create_post", "create_article_post",
     "get_verification_report", "get_userinfo", "create_reshare",
     "initialize_image_upload", "upload_image_binary", "create_image_post",
     "create_multi_image_post"}

\* self.client.<method>: the attribute lookup
ClientAttribute(method) ==
    IF method \in ClientMethods THEN NoExc
    ELSE Exc("AttributeError",
             <<"'", "LinkedInClient", "'", " object has no attribute ",
               "'", method, "'">>)

\* a request: the verb, the URL, the LinkedIn-Version header and the json= body
NoRequest == [verb |-> "", url |-> <<>>, version |-> "", body |-> None]

\* the request get_profile sends
GetProfileRequest ==
    [verb |-> "GET", url |-> Url("/rest/identityMe"), version |-> "202510.03",
     body |-> None]

\* str.strip() and str.replace("\n", " ")
RECURSIVE StripLeft(_), StripRight(_)
StripLeft(txt) ==
    IF Len(txt) > 0 /\ txt[1] \in Whitespace THEN StripLeft(Tail(txt)) ELSE txt
StripRight(txt) ==
    IF Len(txt) > 0 /\ txt[Len(txt)] \in Whitespace
    THEN StripRight(SubSeq(txt, 1, Len(txt) - 1)) ELSE txt
Strip(txt) == StripRight(StripLeft(txt))
ReplaceNewlines(txt) == [i \in 1..Len(txt) |-> IF txt[i] = "\n" THEN " " ELSE txt[i]]

SnippetLimit == 500
Snippet(txt) ==
    LET flat == ReplaceNewlines(Strip(txt))
    IN SubSeq(flat, 1, IF Len(flat) < SnippetLimit THEN Len(flat) ELSE SnippetLimit)

\* Response.raise_for_status raises for 400..599
IsHttpError(status) == status >= 400 /\ status < 600

AuthStatuses == {401, 403}

\* a variant of RaiseForStatus that reports the body for every status
RaiseForStatusWithBody(resp) ==
    IF ~IsHttpError(resp.status) THEN NoExc
    ELSE Exc("RuntimeError",
             <<"LinkedIn request failed (status ">> \o IntToStr(resp.status)
             \o <<").">>
             \o (IF Len(resp.text) > 0
                 THEN <<" Response: ">> \o Snippet(resp.text) ELSE <<>>))

\* LinkedInClient._raise_for_status: the exception raised, or NoExc
\* ("<backtick>" stands for the character U+0060)
RaiseForStatus(resp) ==
    IF ~IsHttpError(resp.status) THEN NoExc
    ELSE IF resp.status \in AuthStatuses
    THEN Exc("RuntimeError",
             <<"LinkedIn rejected the request ", "(status ">>
             \o IntToStr(resp.status)
             \o <<"). Ensure LINKEDIN_ACCESS_TOKEN is valid and has the required scopes, ",
                  "or re-run ", "<backtick>", "python -m src.mcp_server --auth",
                  "<backtick>", " to refresh it.">>)
    ELSE Exc("RuntimeError",
             <<"LinkedIn request failed (status ">> \o IntToStr(resp.status)
             \o <<").">>
             \o (IF Len(resp.text) > 0
                 THEN <<" Response: ">> \o Snippet(resp.text) ELSE <<>>))

\* what a client method gives back: a value or an exception
Returned(v) == [ok |-> TRUE, v |-> v, exc |-> NoExc]
Raised(exc) == [ok |-> FALSE, v |-> None, exc |-> exc]

\* resp.json(): the decoded body, or the decoder's ValueError (its text
\* without the position)
RespJson(resp) ==
    LET r == json_loads(resp.text)
    IN IF r.ok THEN Returned(r.v) ELSE Raised(Exc("JSONDecodeError", <<r.err>>))

\* LinkedInClient.get_profile, from the response on
GetProfile(resp) ==
    IF RaiseForStatus(resp) # NoExc THEN Raised(RaiseForStatus(resp))
    ELSE RespJson(resp)

-----------------------------------------------------------------------------
(* MCPServer.tools: the catalog *)

\* a dict literal with one-word keys
Obj(keys, vals) == PyDict([i \in 1..Len(keys) |-> <<keys[i]>>], vals)

\* {"type": <ty>} and a list of one-word strings
Typed(ty) == Obj(<<"type">>, <<Word(ty)>>)
Words(ws) == PyList([i \in 1..Len(ws) |-> Word(ws[i])])

\* one descriptor with and without a "required" list
Tool(name, description, properties) ==
    Obj(<<"name", "description", "inputSchema">>,
        <<Word(name), Word(description),
          Obj(<<"type", "properties">>, <<Word("object"), properties>>)>>)
ToolRequiring(name, description, required, properties) ==
    Obj(<<"name", "description", "inputSchema">>,
        <<Word(name), Word(description),
          Obj(<<"type", "required", "properties">>,
              <<Word("object"), Words(required), properties>>)>>)

tools ==
    PyList(<<
      Tool("get_profile",
           "Fetch current profile info (id, names, headline, summary, location, picture).",
           EmptyDict),
      Tool("get_email_address",
           "Fetch the signed-in member's primary email address.",
           EmptyDict),
      Tool("update_profile",
           "Merge-patch the profile document. Pass only fields to update (e.g. headline, summary, location).",
           Obj(<<"fields">>, <<Typed("object")>>)),
      ToolRequiring("upsert_experience",
           "Create or update a position experience entry.",
           <<"title", "company_name", "start_year">>,
           Obj(<<"position_id", "title", "company_name", "employment_type",
                 "location", "description", "start_year", "start_month",
                 "start_day", "end_year", "end_month", "end_day", "is_current">>,
               <<Typed("string"), Typed("string"), Typed("string"), Typed("string"),
                 Typed("string"), Typed("string"), Typed("integer"), Typed("integer"),
                 Typed("integer"), Typed("integer"), Typed("integer"), Typed("integer"),
                 Typed("boolean")>>)),
      ToolRequiring("create_post",
           "Publish a post with optional media URL.",
           <<"text">>,
           Obj(<<"text", "author_urn", "visibility", "media_url">>,
               <<Typed("string"), Typed("string"),
                 Obj(<<"type", "enum">>,
                     <<Word("string"), Words(<<"PUBLIC", "CONNECTIONS">>)>>),
                 Typed("string")>>)),
      Tool("list_posts",
           "List recent UGC posts authored by the signed-in member.",
           Obj(<<"count", "start">>,
               <<Obj(<<"type", "minimum", "maximum">>,
                     <<Word("integer"), PyInt(1), PyInt(100)>>),
                 Obj(<<"type", "minimum">>, <<Word("integer"), PyInt(0)>>)>>)),
      ToolRequiring("comment_on_entity",
           "Add a comment to a post/ugc entity by URN.",
           <<"entity_urn", "message">>,
           Obj(<<"entity_urn", "message">>, <<Typed("string"), Typed("string")>>)),
      ToolRequiring("react_to_entity",
           "React to a post/ugc entity by URN with a reaction type.",
           <<"entity_urn", "reaction_type">>,
           Obj(<<"entity_urn", "reaction_type">>,
               <<Typed("string"),
                 Obj(<<"type", "enum">>,
                     <<Word("string"),
                       Words(<<"LIKE", "CELEBRATE", "LOVE", "INSIGHTFUL",
                               "CURIOUS", "SUPPORT">>)>>)>>)),
      ToolRequiring("send_invitation",
           "Send a connection invite to a profile URN with optional note.",
           <<"profile_urn">>,
           Obj(<<"profile_urn", "message">>, <<Typed("string"), Typed("string")>>)),
      ToolRequiring("search",
           "Search LinkedIn blended results for jobs, people, or companies.",
           <<"keywords", "result_type">>,
           Obj(<<"keywords", "result_type", "count", "start", "location">>,
               <<Typed("string"),
                 Obj(<<"type", "enum">>,
                     <<Word("string"), Words(<<"JOBS", "PEOPLE", "COMPANIES">>)>>),
                 Typed("integer"), Typed("integer"), Typed("string")>>))
    >>)

-----------------------------------------------------------------------------
(* MCPServer.invoke_tool *)

\* args.get(key) and args[key]: the exception, or NoExc.  args is what
\* `params.get("arguments") or {}` gave: a dict or any other truthy value
ArgsGet(args) == IF args.t = "dict" THEN NoExc ELSE NoGetAttribute(args)
ArgsIndex(args, key) ==
    CASE args.t = "dict" ->
           IF DictHas(args, <<key>>) THEN NoExc
           ELSE Exc("KeyError", <<"'", key, "'">>)
      [] args.t = "list" ->
           Exc("TypeError", <<"list indices must be integers or slices, not str">>)
      [] args.t = "str" ->
           Exc("TypeError", <<"string indices must be integers, not 'str'">>)
      [] OTHER ->
           Exc("TypeError", <<"'", TypeName(args), "'", " object is not subscriptable">>)

\* the first exception of a sequence of steps, in evaluation order
RECURSIVE FirstExc(_)
FirstExc(steps) ==
    IF steps = <<>> THEN NoExc
    ELSE IF Head(steps) # NoExc THEN Head(steps)
    ELSE FirstExc(Tail(steps))

\* the call create_post(text=, author_urn=, visibility=, media_url=) against
\* create_post(self, author, commentary, visibility, distribution, ...)
CreatePostCall ==
    Exc("TypeError",
        <<"LinkedInClient.create_post() got an unexpected keyword argument ",
          "'", "text", "'">>)

ToolRaises(exc) == [kind |-> "raise", exc |-> exc, req |-> NoRequest]
ToolRequests(req) == [kind |-> "http", exc |-> NoExc, req |-> req]

\* invoke_tool up to its first exception or its outbound request
invoke_tool(name, args) ==
    CASE name = Word("get_profile") -> ToolRequests(GetProfileRequest)
      [] name = Word("get_email_address") ->
           ToolRaises(ClientAttribute("get_primary_email"))
      [] name = Word("update_profile") ->
           ToolRaises(FirstExc(<<ArgsGet(args), ClientAttribute("update_profile")>>))
      [] name = Word("upsert_experience") ->
           ToolRaises(FirstExc(<<ArgsGet(args), ArgsIndex(args, "title"),
                                 ArgsIndex(args, "company_name"),
                                 ClientAttribute("upsert_experience")>>))
      [] name = Word("create_post") ->
           ToolRaises(FirstExc(<<ClientAttribute("create_post"),
                                 ArgsIndex(args, "text"), ArgsGet(args),
                                 CreatePostCall>>))
      [] name = Word("list_posts") -> ToolRaises(ClientAttribute("list_posts"))
      [] name = Word("comment_on_entity") ->
           ToolRaises(ClientAttribute("comment_on_entity"))
      [] name = Word("react_to_entity") ->
           ToolRaises(ClientAttribute("react_to_entity"))
      [] name = Word("send_invitation") ->
           ToolRaises(ClientAttribute("send_invitation"))
      [] name = Word("search") -> ToolRaises(ClientAttribute("search"))
      [] OTHER ->
           ToolRaises(Exc("ValueError", <<"Unknown tool: ">> \o PyFormat(name)))

-----------------------------------------------------------------------------
(* MCPServer.handle_message *)

ErrorCode == -32000

\* MCPServer._response
Response(request_id, result) ==
    Obj(<<"jsonrpc", "id", "result">>, <<Word("2.0"), request_id, result>>)

\* a variant of ErrorResponse that loses the id of the request
ErrorResponseNullId(request_id, exc) ==
    Obj(<<"jsonrpc", "id", "error">>,
        <<Word("2.0"), None,
          Obj(<<"code", "message">>, <<PyInt(ErrorCode), PyStr(exc.msg)>>)>>)

\* the envelope of lines 66-70
ErrorResponse(request_id, exc) ==
    Obj(<<"jsonrpc", "id", "error">>,
        <<Word("2.0"), request_id,
          Obj(<<"code", "message">>, <<PyInt(ErrorCode), PyStr(exc.msg)>>)>>)

\* a variant of ToolContent that writes str(result) for json.dumps(result)
ToolContentStr(result) ==
    Obj(<<"content">>,
        <<PyList(<<Obj(<<"type", "text">>,
                       <<Word("text"), PyStr(PyRepr(result))>>)>>)>>)

\* the result of line 64: one text block holding json.dumps(result)
ToolContent(result) ==
    Obj(<<"content">>,
        <<PyList(<<Obj(<<"type", "text">>,
                       <<Word("text"), PyStr(json_dumps(result))>>)>>)>>)

InitializeResult ==
    Obj(<<"protocolVersion", "capabilities", "serverInfo">>,
        <<Word("0.1"),
          Obj(<<"tools">>, <<EmptyDict>>),
          Obj(<<"name", "version">>, <<Word("linkedin-mcp-server"), Word("0.1.0")>>)>>)

ListMethods == {Word("list_tools"), Word("tools/list")}
CallMethods == {Word("call_tool"), Word("tools/call")}

\* x in {...}: a list or a dict cannot be hashed
Unhashable(v) == v.t \in {"list", "dict"}

\* how far handle_message gets: it returns a response (tool: whether
\* invoke_tool ran, and then exc is what it raised), an exception escapes
\* it, or its tool waits for the remote service
Returns(response) ==
    [kind |-> "return", response |-> response, exc |-> NoExc, req |-> NoRequest,
     tool |-> FALSE]
ReturnsToolError(response, exc) ==
    [kind |-> "return", response |-> response, exc |-> exc, req |-> NoRequest,
     tool |-> TRUE]
Raises(exc) ==
    [kind |-> "raise", response |-> None, exc |-> exc, req |-> NoRequest,
     tool |-> FALSE]
Awaits(req) ==
    [kind |-> "http", response |-> None, exc |-> NoExc, req |-> req,
     tool |-> TRUE]

\* a variant of UnknownMethod that answers "method not found"
UnknownMethodError(request_id) ==
    [kind |-> "return",
     response |-> ErrorResponse(request_id, Exc("ValueError", <<"Method not found">>)),
     exc |-> NoExc, req |-> NoRequest, tool |-> FALSE]

\* line 72: no branch took the method
UnknownMethod(request_id) == Returns(None)

\* name and args of lines 60-61, for params a dict
ToolName(params) == DictGet(params, <<"name">>, None)
ToolArgs(params) ==
    IF Truthy(DictGet(params, <<"arguments">>, None))
    THEN DictGet(params, <<"arguments">>, None) ELSE EmptyDict

\* a variant of ToolResponse that reports a failure inside a result
ToolResponseIsError(request_id, outcome) ==
    IF outcome.ok THEN Response(request_id, ToolContent(outcome.v))
    ELSE Response(request_id,
                  Obj(<<"content", "isError">>,
                      <<PyList(<<Obj(<<"type", "text">>,
                                     <<Word("text"), PyStr(outcome.exc.msg)>>)>>),
                        PyBool(TRUE)>>))

\* the try block of lines 62-70 once invoke_tool has returned or raised
ToolResponse(request_id, outcome) ==
    IF outcome.ok THEN Response(request_id, ToolContent(outcome.v))
    ELSE ErrorResponse(request_id, outcome.exc)

\* handle_message up to its return, the exception that escapes it, or the
\* outbound request its tool waits on
handle_message(message) ==
    IF message.t # "dict" THEN Raises(NoGetAttribute(message))
    ELSE
    LET method == DictGet(message, <<"method">>, None)
        request_id == DictGet(message, <<"id">>, None)
        params == DictGet(message, <<"params">>, EmptyDict)
    IN  IF method = Word("initialize")
        THEN Returns(Response(request_id, InitializeResult))
        ELSE IF Unhashable(method)
        THEN Raises(Exc("TypeError",
                        <<"unhashable type: ", "'", TypeName(method), "'">>))
        ELSE IF method \in ListMethods
        THEN Returns(Response(request_id, Obj(<<"tools">>, <<tools>>)))
        ELSE IF method \in CallMethods
        THEN IF params.t # "dict" THEN Raises(NoGetAttribute(params))
             ELSE LET call == invoke_tool(ToolName(params), ToolArgs(params))
                  IN IF call.kind = "http" THEN Awaits(call.req)
                     ELSE ReturnsToolError(
                              ToolResponse(request_id, Raised(call.exc)), call.exc)
        ELSE UnknownMethod(request_id)

\* handle_message from the answer of the remote service on
handle_message_resume(message, outcome) ==
    ToolResponse(DictGet(message, <<"id">>, None), outcome)

-----------------------------------------------------------------------------
(* LinkedInClient: the payload builders.  A call is a method and its       *)
(* keyword arguments; linkedin_version is left to its default.             *)

\* a keyword argument, or the default of the signature
Arg(args, name, default) == DictGet(args, <<name>>, default)

\* the parameters without a default, in the order of the signature
Required(method) ==
    CASE method = "create_post" -> <<"author", "commentary">>
      [] method = "create_article_post" ->
           <<"author", "commentary", "article_source", "article_title",
             "article_description">>
      [] method = "create_reshare" -> <<"author", "parent">>
      [] method = "initialize_image_upload" -> <<"owner">>
      [] method = "upload_image_binary" -> <<"upload_url", "file_path">>
      [] method = "create_image_post" -> <<"author", "image_urn", "commentary">>
      [] method = "create_multi_image_post" -> <<"author", "images", "commentary">>
      [] OTHER -> <<>>

\* 'a' / 'a' and 'b' / 'a', 'b', and 'c'
RECURSIVE Listed(_, _)
Listed(names, i) ==
    IF i > Len(names) THEN <<>>
    ELSE <<"'", names[i], "'">>
         \o (IF i >= Len(names) THEN <<>>
             ELSE IF i < Len(names) - 1 THEN <<",", " ">>
             ELSE IF Len(names) = 2 THEN <<" and ">> ELSE <<",", " and ">>)
         \o Listed(names, i + 1)

\* the call itself: the TypeError for parameters left out, or NoExc
MissingArguments(method, args) ==
    LET missing == SelectSeq(Required(method), LAMBDA n : ~DictHas(args, <<n>>))
    IN  IF missing = <<>> THEN NoExc
        ELSE Exc("TypeError",
                 <<"LinkedInClient.", method, "() missing ">>
                 \o IntToStr(Len(missing))
                 \o <<IF Len(missing) = 1 THEN " required positional argument: "
                      ELSE " required positional arguments: ">>
                 \o Listed(missing, 1))

\* `x.strip() if x else ""`: the text, and the AttributeError of a truthy x
\* that is no str
Trim(v) == IF Truthy(v) /\ v.t = "str" THEN Strip(v.s) ELSE <<>>
StripError(v) ==
    IF Truthy(v) /\ v.t # "str"
    THEN Exc("AttributeError",
             <<"'", TypeName(v), "'", " object has no attribute ", "'", "strip", "'">>)
    ELSE NoExc

\* a variant of Blank that lets every value pass
BlankAllowed(name, v) == NoExc

\* `if not x_value: raise ValueError("<name> is required")`
Blank(name, v) ==
    IF Trim(v) = <<>> THEN Exc("ValueError", <<name, " is required">>) ELSE NoExc

\* what a builder gives: an exception or a payload
Built(exc, payload) == [exc |-> exc, payload |-> IF exc = NoExc THEN payload ELSE None]

\* lines 268-272
DefaultDistribution ==
    Obj(<<"feedDistribution", "targetEntities", "thirdPartyDistributionChannels">>,
        <<Word("MAIN_FEED"), PyList(<<>>), PyList(<<>>)>>)

\* `distribution or default`
DistributionOr(args, default) ==
    IF Truthy(Arg(args, "distribution", None))
    THEN Arg(args, "distribution", None) ELSE default

\* a variant of build_post_payload that puts the commentary on one line
build_post_payload_one_line(args) ==
    Built(FirstExc(<<StripError(Arg(args, "author", None)),
                     StripError(Arg(args, "commentary", None)),
                     Blank("author", Arg(args, "author", None)),
                     Blank("commentary", Arg(args, "commentary", None))>>),
          Obj(<<"author", "commentary", "visibility", "distribution",
                "lifecycleState", "isReshareDisabledByAuthor">>,
              <<PyStr(Trim(Arg(args, "author", None))),
                PyStr(ReplaceNewlines(Trim(Arg(args, "commentary", None)))),
                Arg(args, "visibility", Word("PUBLIC")),
                DistributionOr(args, DefaultDistribution),
                Arg(args, "lifecycle_state", Word("PUBLISHED")),
                Arg(args, "is_reshare_disabled_by_author", PyBool(FALSE))>>))

\* a variant of build_post_payload whose default distribution is the one of
\* the article builder
build_post_payload_feed_only(args) ==
    Built(FirstExc(<<StripError(Arg(args, "author", None)),
                     StripError(Arg(args, "commentary", None)),
                     Blank("author", Arg(args, "author", None)),
                     Blank("commentary", Arg(args, "commentary", None))>>),
          Obj(<<"author", "commentary", "visibility", "distribution",
                "lifecycleState", "isReshareDisabledByAuthor">>,
              <<PyStr(Trim(Arg(args, "author", None))),
                PyStr(Trim(Arg(args, "commentary", None))),
                Arg(args, "visibility", Word("PUBLIC")),
                DistributionOr(args, Obj(<<"feedDistribution">>, <<Word("MAIN_FEED")>>)),
                Arg(args, "lifecycle_state", Word("PUBLISHED")),
                Arg(args, "is_reshare_disabled_by_author", PyBool(FALSE))>>))

\* LinkedInClient._build_post_payload, with the defaults of create_post
build_post_payload(args) ==
    Built(FirstExc(<<StripError(Arg(args, "author", None)),
                     StripError(Arg(args, "commentary", None)),
                     Blank("author", Arg(args, "author", None)),
                     Blank("commentary", Arg(args, "commentary", None))>>),
          Obj(<<"author", "commentary", "visibility", "distribution",
                "lifecycleState", "isReshareDisabledByAuthor">>,
              <<PyStr(Trim(Arg(args, "author", None))),
                PyStr(Trim(Arg(args, "commentary", None))),
                Arg(args, "visibility", Word("PUBLIC")),
                DistributionOr(args, DefaultDistribution),
                Arg(args, "lifecycle_state", Word("PUBLISHED")),
                Arg(args, "is_reshare_disabled_by_author", PyBool(FALSE))>>))

\* LinkedInClient._build_article_post_payload
build_article_post_payload(args) ==
    Built(FirstExc(<<StripError(Arg(args, "author", None)),
                     StripError(Arg(args, "commentary", None)),
                     StripError(Arg(args, "article_source", None)),
                     StripError(Arg(args, "article_title", None)),
                     StripError(Arg(args, "article_description", None)),
                     Blank("author", Arg(args, "author", None)),
                     Blank("commentary", Arg(args, "commentary", None)),
                     Blank("article_source", Arg(args, "article_source", None)),
                     Blank("article_title", Arg(args, "article_title", None)),
                     Blank("article_description",
                           Arg(args, "article_description", None))>>),
          Obj(<<"author", "commentary", "visibility", "lifecycleState", "content",
                "distribution">>,
              <<PyStr(Trim(Arg(args, "author", None))),
                PyStr(Trim(Arg(args, "commentary", None))),
                Arg(args, "visibility", Word("PUBLIC")),
                Arg(args, "lifecycle_state", Word("PUBLISHED")),
                Obj(<<"article">>,
                    <<Obj(<<"source", "title", "description">>,
                          <<PyStr(Trim(Arg(args, "article_source", None))),
                            PyStr(Trim(Arg(args, "article_title", None))),
                            PyStr(Trim(Arg(args, "article_description", None)))>>)>>),
                DistributionOr(args, Obj(<<"feedDistribution">>, <<Word("MAIN_FEED")>>))>>))

\* `if x_value: d[key] = x_value` for an optional text
WithOptional(d, key, v) ==
    IF Trim(v) = <<>> THEN d ELSE DictSet(d, <<key>>, PyStr(Trim(v)))

\* LinkedInClient._build_reshare_payload
build_reshare_payload(args) ==
    Built(FirstExc(<<StripError(Arg(args, "author", None)),
                     StripError(Arg(args, "parent", None)),
                     Blank("author", Arg(args, "author", None)),
                     Blank("parent", Arg(args, "parent", None)),
                     StripError(Arg(args, "commentary", PyStr(<<>>)))>>),
          WithOptional(
              Obj(<<"author", "visibility", "distribution", "lifecycleState",
                    "isReshareDisabledByAuthor", "reshareContext">>,
                  <<PyStr(Trim(Arg(args, "author", None))),
                    Arg(args, "visibility", Word("PUBLIC")),
                    DistributionOr(args, DefaultDistribution),
                    Arg(args, "lifecycle_state", Word("PUBLISHED")),
                    Arg(args, "is_reshare_disabled_by_author", PyBool(FALSE)),
                    Obj(<<"parent">>, <<PyStr(Trim(Arg(args, "parent", None)))>>)>>),
              "commentary", Arg(args, "commentary", PyStr(<<>>))))

\* LinkedInClient._build_image_post_payload
build_image_post_payload(args) ==
    Built(FirstExc(<<StripError(Arg(args, "author", None)),
                     StripError(Arg(args, "image_urn", None)),
                     StripError(Arg(args, "commentary", None)),
                     Blank("author", Arg(args, "author", None)),
                     Blank("image_urn", Arg(args, "image_urn", None)),
                     Blank("commentary", Arg(args, "commentary", None)),
                     StripError(Arg(args, "alt_text", PyStr(<<>>)))>>),
          Obj(<<"author", "commentary", "visibility", "lifecycleState",
                "distribution", "content">>,
              <<PyStr(Trim(Arg(args, "author", None))),
                PyStr(Trim(Arg(args, "commentary", None))),
                Arg(args, "visibility", Word("PUBLIC")),
                Arg(args, "lifecycle_state", Word("PUBLISHED")),
                DefaultDistribution,
                Obj(<<"media">>,
                    <<WithOptional(
                          Obj(<<"id">>, <<PyStr(Trim(Arg(args, "image_urn", None)))>>),
                          "altText", Arg(args, "alt_text", PyStr(<<>>)))>>)>>))

\* `for image in images`: what the loop runs over, and the TypeError of a
\* value that cannot be iterated
Iterated(v) ==
    CASE v.t = "list" -> v.c
      [] v.t = "dict" -> [i \in 1..Len(v.k) |-> PyStr(v.k[i])]
      [] v.t = "str" -> [i \in 1..Len(v.s) |-> Word(v.s[i])]
      [] OTHER -> <<>>
IterError(v) ==
    IF v.t \in {"list", "dict", "str"} THEN NoExc
    ELSE Exc("TypeError", <<"'", TypeName(v), "'", " object is not iterable">>)

\* `(image.get(key) or "")`
ImageField(image, key) ==
    IF Truthy(DictGet(image, <<key>>, None))
    THEN DictGet(image, <<key>>, None) ELSE PyStr(<<>>)

\* lines 413-420 for one image: the exception, or NoExc
ImageError(image) ==
    IF image.t # "dict" THEN NoGetAttribute(image)
    ELSE FirstExc(<<StripError(ImageField(image, "id")),
                    Blank("image id", ImageField(image, "id")),
                    StripError(ImageField(image, "altText"))>>)

\* lines 416-419: the item of one image
ImageItem(image) ==
    WithOptional(Obj(<<"id">>, <<PyStr(Trim(ImageField(image, "id")))>>),
                 "altText", ImageField(image, "altText"))

\* LinkedInClient._build_multi_image_post_payload
build_multi_image_post_payload(args) ==
    LET images == Arg(args, "images", None)
        each == Iterated(images)
    IN  Built(FirstExc(<<StripError(Arg(args, "author", None)),
                         StripError(Arg(args, "commentary", None)),
                         Blank("author", Arg(args, "author", None)),
                         Blank("commentary", Arg(args, "commentary", None)),
                         IF Truthy(images) THEN NoExc
                         ELSE Exc("ValueError", <<"images", " is required">>),
                         IterError(images)>>
                       \o [i \in 1..Len(each) |-> ImageError(each[i])]),
              Obj(<<"author", "commentary", "visibility", "distribution",
                    "lifecycleState", "isReshareDisabledByAuthor", "content">>,
                  <<PyStr(Trim(Arg(args, "author", None))),
                    PyStr(Trim(Arg(args, "commentary", None))),
                    Arg(args, "visibility", Word("PUBLIC")),
                    DistributionOr(args, DefaultDistribution),
                    Arg(args, "lifecycle_state", Word("PUBLISHED")),
                    Arg(args, "is_reshare_disabled_by_author", PyBool(FALSE)),
                    Obj(<<"multiImage">>,
                        <<Obj(<<"images">>,
                              <<PyList([i \in 1..Len(each) |->
                                           ImageItem(each[i])])>>)>>)>>))

-----------------------------------------------------------------------------
(* LinkedInClient: the methods, up to the request and from the answer on *)

\* the paths that are files when upload_image_binary looks
Files == {<<"/tmp/photo.png">>}

\* lines 164-169; file_path is a str
upload_checks(args) ==
    FirstExc(<<StripError(Arg(args, "upload_url", None)),
               Blank("upload_url", Arg(args, "upload_url", None)),
               IF Arg(args, "file_path", None).s \in Files THEN NoExc
               ELSE Exc("ValueError",
                        <<"file_path not found: ">>
                        \o PyFormat(Arg(args, "file_path", None)))>>)

\* lines 151-153
owner_checks(args) ==
    FirstExc(<<StripError(Arg(args, "owner", None)),
               Blank("owner", Arg(args, "owner", None))>>)

Get(path, version) ==
    ToolRequests([verb |-> "GET", url |-> Url(path), version |-> version,
                  body |-> None])
Post(path, version, built) ==
    IF built.exc # NoExc THEN ToolRaises(built.exc)
    ELSE ToolRequests([verb |-> "POST", url |-> Url(path), version |-> version,
                       body |-> built.payload])

\* a method of the client up to its first exception or its outbound request
client_call(method, args) ==
    IF ClientAttribute(method) # NoExc THEN ToolRaises(ClientAttribute(method))
    ELSE IF MissingArguments(method, args) # NoExc
    THEN ToolRaises(MissingArguments(method, args))
    ELSE CASE method = "get_profile" -> ToolRequests(GetProfileRequest)
           [] method = "get_verification_report" ->
                Get("/rest/verificationReport", "202510")
           [] method = "get_userinfo" -> Get("/v2/userinfo", "202502")
           [] method = "create_post" ->
                Post("/rest/posts", "202502", build_post_payload(args))
           [] method = "create_article_post" ->
                Post("/rest/posts", "202502", build_article_post_payload(args))
           [] method = "create_reshare" ->
                Post("/rest/posts", "202401", build_reshare_payload(args))
           [] method = "create_image_post" ->
                Post("/rest/posts", "202401", build_image_post_payload(args))
           [] method = "create_multi_image_post" ->
                Post("/rest/posts", "202511", build_multi_image_post_payload(args))
           [] method = "initialize_image_upload" ->
                Post("/rest/images?action=initializeUpload", "202401",
                     Built(owner_checks(args),
                           Obj(<<"initializeUploadRequest">>,
                               <<Obj(<<"owner">>,
                                     <<PyStr(Trim(Arg(args, "owner", None)))>>)>>)))
           [] method = "upload_image_binary" ->
                IF upload_checks(args) # NoExc THEN ToolRaises(upload_checks(args))
                ELSE ToolRequests(
                         [verb |-> "PUT",
                          url |-> Trim(Arg(args, "upload_url", None)),
                          version |-> "",
                          body |-> PyStr(<<"<the bytes of>">>
                                         \o Arg(args, "file_path", None).s)])

\* {"status": resp.status_code}
StatusOnly(resp) == Obj(<<"status">>, <<PyInt(resp.status)>>)

\* `except ValueError:` around resp.json(), whose JSONDecodeError is one
ExceptValueError(outcome, fallback) ==
    IF ~outcome.ok /\ outcome.exc.type = "JSONDecodeError" THEN Returned(fallback)
    ELSE outcome

\* lines 60-64: `try: return resp.json() except ValueError: return {"status": ..}`
\* where `outcome` is what _raise_for_status and resp.json() came to
JsonOrStatus(resp, outcome) == ExceptValueError(outcome, StatusOnly(resp))

\* lines 177-183: an empty body is no JSON either
UploadReturn(resp, outcome) ==
    ExceptValueError(outcome,
                     IF Len(resp.text) = 0 THEN StatusOnly(resp)
                     ELSE DictSet(StatusOnly(resp), <<"body">>, PyStr(resp.text)))

\* the methods that end with `return resp.json()`, like get_profile
JsonMethods ==
    {"get_profile", "get_verification_report", "get_userinfo",
     "initialize_image_upload"}

\* the end of each method, after _raise_for_status and resp.json()
method_return(method, resp, outcome) ==
    IF method \in JsonMethods THEN outcome
    ELSE IF method = "upload_image_binary" THEN UploadReturn(resp, outcome)
    ELSE JsonOrStatus(resp, outcome)

\* a method of the client from the answer of the remote service on
client_return(method, resp) == method_return(method, resp, GetProfile(resp))

-----------------------------------------------------------------------------
(* The environment: the lines a peer writes and the answers of the remote *)

MaxLines == 2

\* one request per line, as a peer's json.dumps writes it
Line(v) == json_dumps(v) \o <<"\n">>
Request(id, method) ==
    Obj(<<"jsonrpc", "id", "method">>, <<Word("2.0"), id, Word(method)>>)
Notification(method) == Obj(<<"jsonrpc", "method">>, <<Word("2.0"), Word(method)>>)
Call(id, method, params) ==
    Obj(<<"jsonrpc", "id", "method", "params">>,
        <<Word("2.0"), id, Word(method), params>>)
Named(name, arguments) == Obj(<<"name", "arguments">>, <<Word(name), arguments>>)

Lines ==
    { Line(Request(PyInt(1), "initialize")),
      Line(Request(PyInt(2), "tools/list")),
      Line(Notification("list_tools")),
      Line(Call(PyInt(1), "tools/call", Named("get_profile", EmptyDict))),
      Line(Call(PyInt(2), "tools/call",
                Named("create_post",
                      Obj(<<"author", "commentary">>,
                          <<Word("urn:li:person:abc"), Word("Testing")>>)))),
      Line(Call(PyStr(<<"r", "\"", "<e9>">>), "call_tool",
                Named("create_post",
                      Obj(<<"text">>, <<PyStr(<<"Hello", "\n", "world">>)>>)))),
      Line(Call(PyInt(4), "tools/call", Obj(<<"name">>, <<Word("nope")>>))),
      Line(Call(PyInt(5), "tools/call", None)),
      Line(Call(None, "call_tool", EmptyDict)),
      Line(Call(PyInt(10), "tools/call",
                Named("update_profile", PyList(<<PyInt(1)>>)))),
      Line(Call(PyInt(12), "tools/call",
                Named("upsert_experience", Obj(<<"title">>, <<Word("Engineer")>>)))),
      Line(Request(PyInt(7), "ping")),
      Line(Notification("notifications/initialized")),
      Line(Obj(<<"jsonrpc", "id", "result">>, <<Word("2.0"), PyInt(8), EmptyDict>>)),
      Line(Obj(<<"id", "method">>, <<PyInt(9), Words(<<"tools/call">>)>>)),
      <<"[", "1", "]", "\n">>,
      <<"{", "\"", "id", "\"", ":", " ", "1", ",", " ", "\"", "method", "\"", "\n">>,
      <<"{", "\"", "id", "\"", ":", "3", ",", "\"", "method", "\"", ":",
        "\"", "ping", "\"", "}", "<ff>", "\n">> }

\* a body the remote service may send
Bodies ==
    { <<>>,
      <<"{", "\"", "id", "\"", ":", " ", "\"", "abc", "\"", "}">>,
      <<"{", "\"", "sub", "\"", ":", "\"", "\\", "u", "0", "0", "4", "1", "\\", "/",
        "\\", "\"", "\"", ",", "\"", "n", "\"", ":", "[", "-", "7", ",", "null", ",",
        "true", "]", "}", "\n">>,
      <<"Forbidden", "\n", "token=secret", " ">> }

Statuses == {200, 204, 401, 403, 404}

Responses == [status : Statuses, text : Bodies]
NoResponse == [status |-> 0, text |-> <<>>]

\* what session.get, session.post and requests.put raise when no answer comes
ConnectionError == Exc("ConnectionError", <<"Connection aborted.">>)

\* a call of a method of the client
CallOf(method, names, values) == [method |-> method, args |-> Obj(names, values)]
NoCall == [method |-> "", args |-> EmptyDict]

Urn == Word("urn:li:person:abc")
Image(names, values) == Obj(names, values)

\* the calls made of the client
Calls ==
    { CallOf("get_profile", <<>>, <<>>),
      CallOf("get_userinfo", <<>>, <<>>),
      CallOf("get_verification_report", <<>>, <<>>),
      CallOf("create_post", <<"author", "commentary">>, <<Urn, Word("Hello world")>>),
      CallOf("create_post", <<"author", "commentary">>,
             <<PyStr(<<" ", "urn:li:person:abc", "\t">>),
               PyStr(<<"\n", "Hello", "\n", " ", "\n", "world", " ", "\n">>)>>),
      CallOf("create_post", <<"author", "commentary">>,
             <<Urn, PyStr(<<"one", "\n", "two", "\r", "\n", "three">>)>>),
      CallOf("create_post", <<"author", "commentary">>,
             <<PyStr(<<" ", " ">>), Word("Hello")>>),
      CallOf("create_post", <<"author", "commentary">>, <<Urn, PyStr(<<"\n">>)>>),
      CallOf("create_post", <<"author", "commentary">>, <<Urn, None>>),
      CallOf("create_post", <<"author", "commentary">>, <<PyInt(5), Word("Hello")>>),
      CallOf("create_post", <<"author">>, <<Urn>>),
      CallOf("create_post", <<"commentary", "author", "distribution">>,
             <<Word("Hello"), Urn, EmptyDict>>),
      CallOf("create_post",
             <<"author", "commentary", "visibility", "distribution",
               "is_reshare_disabled_by_author">>,
             <<Urn, Word("Hello"), Word("CONNECTIONS"),
               Obj(<<"feedDistribution">>, <<Word("NONE")>>), PyBool(TRUE)>>),
      CallOf("create_article_post",
             <<"author", "commentary", "article_source", "article_title",
               "article_description">>,
             <<Urn, Word("Read this"), PyStr(<<"https://example.com/a", " ">>),
               Word("A title"), Word("About it")>>),
      CallOf("create_article_post",
             <<"author", "commentary", "article_source", "article_title",
               "article_description">>,
             <<Urn, Word("Read this"), Word("https://example.com/a"),
               PyStr(<<"\t">>), Word("About it")>>),
      CallOf("create_article_post", <<"author", "article_title">>,
             <<Urn, Word("A title")>>),
      CallOf("create_reshare", <<"author", "parent">>,
             <<Urn, Word("urn:li:share:1")>>),
      CallOf("create_reshare", <<"author", "parent", "commentary">>,
             <<Urn, PyStr(<<"urn:li:share:1", "\n">>), PyStr(<<" ", "Look", " ">>)>>),
      CallOf("create_reshare", <<"author", "parent", "commentary">>,
             <<Urn, PyStr(<<" ">>), Word("Look")>>),
      CallOf("initialize_image_upload", <<"owner">>, <<PyStr(<<" ", "urn:li:person:abc">>)>>),
      CallOf("initialize_image_upload", <<"owner">>, <<PyStr(<<>>)>>),
      CallOf("upload_image_binary", <<"upload_url", "file_path">>,
             <<PyStr(<<"https://upload.example/1", "\n">>), Word("/tmp/photo.png")>>),
      CallOf("upload_image_binary", <<"upload_url", "file_path">>,
             <<PyStr(<<" ">>), Word("/tmp/photo.png")>>),
      CallOf("upload_image_binary", <<"upload_url", "file_path">>,
             <<Word("https://upload.example/1"), Word("/tmp/none.png")>>),
      CallOf("create_image_post", <<"author", "image_urn", "commentary", "alt_text">>,
             <<Urn, Word("urn:li:image:1"), Word("Hello"), PyStr(<<" ", "A cat">>)>>),
      CallOf("create_image_post", <<"author", "image_urn", "commentary">>,
             <<Urn, PyStr(<<" ">>), Word("Hello")>>),
      CallOf("create_multi_image_post", <<"author", "images", "commentary">>,
             <<Urn,
               PyList(<<Image(<<"id", "altText">>,
                              <<PyStr(<<"urn:li:image:1", " ">>), PyStr(<<" ">>)>>),
                        Image(<<"id", "altText">>,
                              <<Word("urn:li:image:2"), Word("A dog")>>)>>),
               Word("Hello")>>),
      CallOf("create_multi_image_post", <<"author", "images", "commentary">>,
             <<Urn, PyList(<<>>), Word("Hello")>>),
      CallOf("create_multi_image_post", <<"author", "images", "commentary">>,
             <<Urn,
               PyList(<<Image(<<"id">>, <<Word("urn:li:image:1")>>),
                        Image(<<"altText">>, <<Word("A dog")>>)>>),
               Word("Hello")>>),
      CallOf("create_multi_image_post", <<"author", "images", "commentary">>,
             <<Urn, PyList(<<Word("urn:li:image:1")>>), Word("Hello")>>) }

-----------------------------------------------------------------------------
(* MCPServer.run *)

VARIABLES
    pc,        \* where run is: AwaitingLine, Decoding, Dispatching, Invoking,
               \* Emitting, Done (end of input) or Crashed (an exception left run)
    line,      \* the bytes readline returned
    message,   \* the decoded line
    response,  \* what handle_message returned
    http,      \* the request the client waits on, or NoRequest
    result,    \* what the last call of invoke_tool returned or raised
    escaped,   \* the exception that ended run, or NoExc
    reads,     \* every line read so far
    stdout,    \* every line written so far
    origin,    \* origin[j]: the index in reads of the line that stdout[j] answers
    started,   \* the indexes in reads of the lines whose invoke_tool was entered
    finished,  \* ... and left, in the order it happened
    sent,      \* every request the client has issued so far
    answer,    \* the response the last call of the client got, or NoResponse
    call,      \* the last call a program using the client made of it, or NoCall
    calls      \* how many such calls were made

vars == <<pc, line, message, response, http, result, escaped, reads, stdout,
          origin, started, finished, sent, answer, call, calls>>

\* the variables of MCPServer.run alone
run_vars == <<pc, line, message, response, escaped, reads, stdout, origin,
              started, finished>>

Init ==
    /\ pc = "AwaitingLine"
    /\ line = <<>>
    /\ message = None
    /\ response = None
    /\ http = NoRequest
    /\ result = Returned(None)
    /\ escaped = NoExc
    /\ reads = <<>>
    /\ stdout = <<>>
    /\ origin = <<>>
    /\ started = <<>>
    /\ finished = <<>>
    /\ sent = <<>>
    /\ answer = NoResponse
    /\ call = NoCall
    /\ calls = 0

\* "<ff>" stands for a byte that is no UTF-8: line.decode() raises on it
DecodeLine(bytes) ==
    IF \E i \in 1..Len(bytes) : bytes[i] = "<ff>"
    THEN ParseError("UnicodeDecodeError")
    ELSE json_loads(bytes)

\* line 32 for each line readline may return, the empty read too
Decoded == [bytes \in Lines \cup {<<>>} |-> DecodeLine(bytes)]

\* a variant of CanReadLine for a loop that hands each message to a task
CanReadLineWhileInvoking == pc \in {"AwaitingLine", "Invoking"}

\* line 28 is reached between two messages only
CanReadLine == pc = "AwaitingLine"

\* a variant of AfterDecodeError that lets the decoder's exception leave run
AfterDecodeErrorRaise == "Crashed"

\* lines 33-34: continue
AfterDecodeError == "AwaitingLine"

\* a variant of Written that writes the response twice
WrittenTwice(resp) == IF resp # None THEN <<Line(resp), Line(resp)>> ELSE <<>>

\* lines 37-38: the lines one response adds to the output
Written(resp) == IF resp # None THEN <<Line(resp)>> ELSE <<>>

\* line 28: readline returns a line
ReadLine ==
    /\ CanReadLine
    /\ Len(reads) < MaxLines
    /\ \E l \in Lines :
        /\ line' = l
        /\ reads' = Append(reads, l)
    /\ pc' = "Decoding"
    /\ UNCHANGED <<message, response, http, result, escaped, stdout, origin,
                   started, finished, sent, answer, call, calls>>

\* a variant of EndOfInput for a loop without the test of line 29: the empty
\* read goes to the decoder like any line
EndOfInputIgnored ==
    /\ CanReadLine
    /\ line' = <<>>
    /\ pc' = "Decoding"
    /\ UNCHANGED <<message, response, http, result, escaped, reads, stdout, origin,
                   started, finished, sent, answer, call, calls>>

\* lines 28-30: readline returns b"" and the loop ends
EndOfInput ==
    /\ CanReadLine
    /\ line' = <<>>
    /\ pc' = "Done"
    /\ UNCHANGED <<message, response, http, result, escaped, reads, stdout, origin,
                   started, finished, sent, answer, call, calls>>

\* lines 31-34
Decode ==
    /\ pc = "Decoding"
    /\ IF Decoded[line].ok
       THEN /\ message' = Decoded[line].v
            /\ pc' = "Dispatching"
       ELSE /\ pc' = AfterDecodeError
            /\ UNCHANGED message
    /\ UNCHANGED <<line, response, http, result, escaped, reads, stdout, origin,
                   started, finished, sent, answer, call, calls>>

\* line 36, until handle_message returns, raises or waits for the remote
Dispatch ==
    /\ pc = "Dispatching"
    /\ \E h \in {handle_message(message)} :
           /\ pc' = CASE h.kind = "return" -> "Emitting"
                      [] h.kind = "raise" -> "Crashed"
                      [] h.kind = "http" -> "Invoking"
           /\ response' = IF h.kind = "return" THEN h.response ELSE response
           /\ escaped' = IF h.kind = "raise" THEN h.exc ELSE escaped
           /\ http' = h.req
           /\ result' = IF h.kind = "return" /\ h.tool THEN Raised(h.exc) ELSE result
           /\ started' = IF h.tool THEN Append(started, Len(reads)) ELSE started
           /\ finished' = IF h.kind = "return" /\ h.tool
                          THEN Append(finished, Len(reads)) ELSE finished
           /\ sent' = IF h.kind = "http" THEN Append(sent, h.req) ELSE sent
           /\ answer' = IF h.tool THEN NoResponse ELSE answer
    /\ UNCHANGED <<line, message, reads, stdout, origin, call, calls>>

\* the tool call ends with `outcome`, and handle_message returns
Resume(outcome) ==
    /\ result' = outcome
    /\ response' = handle_message_resume(message, outcome)
    /\ http' = NoRequest
    /\ finished' = Append(finished, Len(reads))
    /\ pc' = "Emitting"
    /\ UNCHANGED <<line, message, escaped, reads, stdout, origin, started, sent,
                   call, calls>>

\* the remote service answers the request of get_profile
RemoteAnswers ==
    /\ pc = "Invoking"
    /\ \E resp \in Responses :
           /\ Resume(GetProfile(resp))
           /\ answer' = resp

\* session.get raises: no answer came
TransportFails ==
    /\ pc = "Invoking"
    /\ Resume(Raised(ConnectionError))
    /\ UNCHANGED answer

\* lines 37-39
Emit ==
    /\ pc = "Emitting"
    /\ \E written \in {Written(response)} :
           /\ stdout' = stdout \o written
           /\ origin' = origin \o [j \in 1..Len(written) |-> Len(reads)]
    /\ pc' = "AwaitingLine"
    /\ UNCHANGED <<line, message, response, http, result, escaped, reads, started,
                   finished, sent, answer, call, calls>>

\* readline, write or drain raises: the pipe is gone
StreamFails ==
    /\ \/ pc = "AwaitingLine"
       \/ pc = "Emitting" /\ response # None
    /\ pc' = "Crashed"
    /\ escaped' = Exc("OSError", <<"Broken pipe">>)
    /\ UNCHANGED <<line, message, response, http, result, reads, stdout, origin,
                   started, finished, sent, answer, call, calls>>

Next ==
    \/ ReadLine
    \/ EndOfInput
    \/ Decode
    \/ Dispatch
    \/ RemoteAnswers
    \/ TransportFails
    \/ Emit
    \/ StreamFails

Spec == Init /\ [][Next]_vars

-----------------------------------------------------------------------------
(* LinkedInClient, called by a program that holds it, as the tests do *)

MaxCalls == 2

\* a method is called: it raises, or its request leaves
ClientCalls ==
    /\ http = NoRequest
    /\ calls < MaxCalls
    /\ \E c \in Calls :
        \E out \in {client_call(c.method, c.args)} :
           /\ call' = c
           /\ http' = out.req
           /\ sent' = IF out.kind = "http" THEN Append(sent, out.req) ELSE sent
           /\ result' = IF out.kind = "raise" THEN Raised(out.exc) ELSE result
    /\ calls' = calls + 1
    /\ answer' = NoResponse
    /\ UNCHANGED run_vars

\* the remote service answers, and the method returns or raises
ClientAnswered ==
    /\ http # NoRequest
    /\ \E resp \in Responses :
           /\ answer' = resp
           /\ \E r \in {client_return(call.method, resp)} : result' = r
    /\ http' = NoRequest
    /\ UNCHANGED <<run_vars, sent, call, calls>>

\* session.get, session.post or requests.put raises: no answer came
ClientTransportFails ==
    /\ http # NoRequest
    /\ result' = Raised(ConnectionError)
    /\ http' = NoRequest
    /\ UNCHANGED <<run_vars, sent, answer, call, calls>>

ClientNext ==
    \/ ClientCalls
    \/ ClientAnswered
    \/ ClientTransportFails

ClientSpec == Init /\ [][ClientNext]_vars

\* run is one coroutine: each of its steps is taken once it can be; every
\* request of the client is answered or fails; and the peer closes its end
\* after finitely many lines, so that readline comes to return b""
LiveSpec ==
    /\ Spec
    /\ WF_vars(Decode)
    /\ WF_vars(Dispatch)
    /\ WF_vars(RemoteAnswers \/ TransportFails)
    /\ WF_vars(Emit)
    /\ WF_vars(EndOfInput)

-----------------------------------------------------------------------------
(* What the properties below speak of *)

Recognized == {Word("initialize")} \cup ListMethods \cup CallMethods

\* the i-th line read, decoded
Read(i) == Decoded[reads[i]]
MethodOf(m) == DictGet(m, <<"method">>, None)
IdOf(m) == DictGet(m, <<"id">>, None)

\* the output lines that answer the i-th line read, and the id of the j-th
Answers(i) == {j \in 1..Len(origin) : origin[j] = i}
OutId(j) == IdOf(json_loads(stdout[j]).v)

\* the i-th line read is a request with an id and a recognized method
IsRequest(i) ==
    /\ Read(i).ok
    /\ Read(i).v.t = "dict"
    /\ DictHas(Read(i).v, <<"id">>)
    /\ MethodOf(Read(i).v) \in Recognized

\* run ended by a failure of the stream
StreamFailed == pc = "Crashed" /\ escaped.type = "OSError"

\* every line read has been dealt with
Settled == pc \in {"AwaitingLine", "Done"} \/ (pc = "Crashed" /\ ~StreamFailed)

\* invoke_tool was entered for the line in hand
LineInvoked == Len(started) > 0 /\ started[Len(started)] = Len(reads)

\* the line in hand has just been answered on the output
JustEmitted ==
    pc = "AwaitingLine" /\ Len(origin) > 0 /\ origin[Len(origin)] = Len(reads)
LastOut == json_loads(stdout[Len(stdout)])

CatalogNames == {DictGet(tools.c[i], <<"name">>, None) : i \in 1..Len(tools.c)}

-----------------------------------------------------------------------------
(* Properties *)

\* C1: once every line read has been dealt with, each line that decodes to a
\* request with an id and a recognized method has exactly one response line,
\* and the response lines stand in the order of their requests.
C1_EveryRequestAnsweredOnce ==
    Settled =>
        /\ \A i \in 1..Len(reads) : IsRequest(i) => Cardinality(Answers(i)) = 1
        /\ \A j \in 1..(Len(origin) - 1) : origin[j] < origin[j + 1]

\* C2: every response, a result or an error, carries the id of the request
\* that triggered it (null when the request has none): in the envelope
\* handle_message returns and in the line written.
C2_ResponseEchoesId ==
    /\ pc = "Emitting" /\ response # None =>
        /\ DictHas(response, <<"id">>)
        /\ IdOf(response) = IdOf(message)
    /\ JustEmitted =>
        LET out == LastOut
        IN  /\ out.ok
            /\ DictHas(out.v, <<"id">>)
            /\ IdOf(out.v) = IdOf(Read(Len(reads)).v)

C2_Witness ==
    /\ JustEmitted
    /\ IdOf(LastOut.v) = PyStr(<<"r", "\"", "<e9>">>)
    /\ DictHas(LastOut.v, <<"error">>)

\* C3: nothing but a failure of the stream ends the loop before the end of
\* the input: no exception raised while a line is handled leaves run.
C3_OnlyStreamFailureEndsLoop == pc = "Crashed" => StreamFailed

\* C4: a tool call whose invocation fails yields an envelope with an error
\* and no result, the error's code is -32000 and its message the text of the
\* exception; for a name outside the catalog the message contains the name;
\* and no exception of invoke_tool ends the loop.
C4_ToolFailureIsErrorEnvelope ==
    /\ pc = "Emitting" /\ LineInvoked /\ ~result.ok =>
        LET error == DictGet(response, <<"error">>, None)
            name == ToolName(DictGet(message, <<"params">>, EmptyDict))
        IN  /\ response.k = << <<"jsonrpc">>, <<"id">>, <<"error">> >>
            /\ error.k = << <<"code">>, <<"message">> >>
            /\ DictGet(error, <<"code">>, None) = PyInt(-32000)
            /\ DictGet(error, <<"message">>, None) = PyStr(result.exc.msg)
            /\ name \notin CatalogNames =>
                   IsInfix(PyFormat(name), DictGet(error, <<"message">>, None).s)
    /\ JustEmitted /\ LineInvoked /\ ~result.ok =>
        LET out == LastOut
        IN  /\ out.ok
            /\ ~DictHas(out.v, <<"result">>)
            /\ DictGet(out.v, <<"error">>, None)
                 = Obj(<<"code", "message">>, <<PyInt(-32000), PyStr(result.exc.msg)>>)
    /\ pc = "Crashed" /\ LineInvoked => StreamFailed

C4_Witness ==
    /\ JustEmitted /\ LineInvoked /\ ~result.ok
    /\ result.exc.type = "ValueError"
    /\ IsInfix(<<"nope">>, DictGet(DictGet(LastOut.v, <<"error">>, None),
                                   <<"message">>, None).s)

\* C5: the result of a successful tool call is a content list of exactly one
\* block of type text, and decoding the block's text gives back the value
\* the client method returned: in the envelope and in the line written.
C5_TextDecodesToResult ==
    /\ pc = "Emitting" /\ LineInvoked /\ result.ok =>
        LET content == DictGet(DictGet(response, <<"result">>, None), <<"content">>, None)
        IN  /\ content.t = "list"
            /\ Len(content.c) = 1
            /\ content.c[1].k = << <<"type">>, <<"text">> >>
            /\ DictGet(content.c[1], <<"type">>, None) = Word("text")
            /\ DictGet(content.c[1], <<"text">>, None).t = "str"
            /\ json_loads(DictGet(content.c[1], <<"text">>, None).s).ok
            /\ json_loads(DictGet(content.c[1], <<"text">>, None).s).v = result.v
    /\ JustEmitted /\ LineInvoked /\ result.ok =>
        LET out == LastOut
            content == DictGet(DictGet(out.v, <<"result">>, None), <<"content">>, None)
        IN  /\ out.ok
            /\ content.t = "list"
            /\ Len(content.c) = 1
            /\ json_loads(DictGet(content.c[1], <<"text">>, None).s).v = result.v

C5_Witness ==
    /\ JustEmitted /\ LineInvoked /\ result.ok
    /\ result.v = Obj(<<"sub", "n">>,
                      <<PyStr(<<"A", "/", "\"">>),
                        PyList(<<PyInt(-7), None, PyBool(TRUE)>>)>>)

\* C6: a tool call naming create_post with the arguments author and
\* commentary, and no others, gets a response with a result and no error.
C6_CreatePostSucceeds ==
    LET params == DictGet(message, <<"params">>, EmptyDict)
    IN  /\ pc = "Emitting"
        /\ MethodOf(message) \in CallMethods
        /\ ToolName(params) = Word("create_post")
        /\ ToolArgs(params).k = << <<"author">>, <<"commentary">> >>
        => /\ DictHas(response, <<"result">>)
           /\ ~DictHas(response, <<"error">>)

\* C7: a line that does not decode gets no output line, starts no tool, and
\* leaves the loop waiting for the next line.
C7_UndecodableLineIsDropped ==
    /\ \A j \in 1..Len(origin) : Read(origin[j]).ok
    /\ \A k \in 1..Len(started) : Read(started[k]).ok
    /\ Len(reads) > 0 /\ ~Read(Len(reads)).ok =>
           pc \in {"Decoding", "AwaitingLine", "Done"} \/ StreamFailed

C7_Witness ==
    /\ pc = "AwaitingLine"
    /\ Len(reads) = 2
    /\ ~Read(1).ok
    /\ Read(2).ok
    /\ origin = <<2>>

\* C8: a decoded message whose method is none of the five recognized ones,
\* or that has no method, gets no response line and starts no tool, with an
\* id or without.
C8_UnrecognizedMethodIgnored ==
    \A i \in 1..Len(reads) :
        Read(i).ok /\ MethodOf(Read(i).v) \notin Recognized =>
            /\ Answers(i) = {}
            /\ \A k \in 1..Len(started) : started[k] # i

C8_Witness ==
    /\ pc = "AwaitingLine"
    /\ Len(reads) = 2
    /\ MethodOf(message) = Word("ping")
    /\ DictHas(message, <<"id">>)
    /\ Read(1).ok /\ Read(1).v.t = "dict" /\ ~DictHas(Read(1).v, <<"id">>)
    /\ MethodOf(Read(1).v) \notin Recognized
    /\ stdout = <<>>

\* C9 as stated: no two response lines carry the same id.
C9_NoTwoResponsesShareAnId ==
    \A i, j \in 1..Len(stdout) : i # j => OutId(i) # OutId(j)

\* C9 as amended: no line read gets two response lines, and a response
\* line carries the id of an earlier response line only when the two
\* requests they answer carried the same id.
C9_OneResponsePerLine ==
    /\ Len(stdout) = Len(origin)
    /\ \A i, j \in 1..Len(origin) : i < j => origin[i] # origin[j]
    /\ JustEmitted =>
           \A i \in 1..(Len(stdout) - 1) :
               OutId(i) = OutId(Len(stdout)) =>
                   IdOf(Read(origin[i]).v) = IdOf(Read(Len(reads)).v)

C9_Witness ==
    /\ Len(stdout) = 2
    /\ OutId(1) = OutId(2)
    /\ reads[1] # reads[2]

\* C10: at most one tool invocation is in flight; invocations start and end
\* in the order the lines were read; and before a further line is read the
\* invocation of every earlier line has ended and its response is written.
C10_OneInvocationAtATime ==
    /\ Len(started) - Len(finished) \in {0, 1}
    /\ Len(started) > Len(finished) <=> pc = "Invoking"
    /\ \A k \in 1..Len(finished) : finished[k] = started[k]
    /\ \A k \in 1..(Len(started) - 1) : started[k] < started[k + 1]
    /\ \A k \in 1..Len(started) :
           started[k] < Len(reads) =>
               /\ k <= Len(finished)
               /\ Answers(started[k]) # {}

C10_Witness ==
    /\ pc = "Invoking"
    /\ started = <<1, 2>>
    /\ finished = <<1>>
    /\ origin = <<1>>

\* C11: once the peer has written its last line, run comes to an end (by
\* the empty read, unless an exception ended it before); the empty read ends
\* it without an exception, with no invocation left open, and writes nothing.
C11_EndOfInputTerminates ==
    /\ [](pc = "Done" =>
            /\ escaped = NoExc
            /\ line = <<>>
            /\ http = NoRequest
            /\ Len(started) = Len(finished))
    /\ [][pc' = "Done" => stdout' = stdout /\ origin' = origin]_vars
    /\ (Len(reads) = MaxLines) ~> (pc \in {"Done", "Crashed"})

C11_Witness ==
    /\ pc = "Done"
    /\ Len(reads) = MaxLines
    /\ finished = <<Len(reads)>>
    /\ Len(stdout) = 1

-----------------------------------------------------------------------------
(* Properties of the client *)

\* a field of a dict, and a text that is neither blank nor padded
At(d, key) == DictGet(d, <<key>>, None)
NonBlank(v) == v.t = "str" /\ v.s # <<>> /\ Strip(v.s) = v.s

\* the methods that validate their arguments
Validating == {m \in ClientMethods : Required(m) # <<>>}

\* the arguments a call was given that fail validation: a blank required
\* text (the upload URL is one), an empty image list or an image without an
\* id, a file that is not there
FailsValidation(c) ==
    \/ \E i \in 1..Len(Required(c.method)) :
           LET name == Required(c.method)[i]
           IN  /\ name \notin {"images", "file_path"}
               /\ At(c.args, name).t = "str"
               /\ Strip(At(c.args, name).s) = <<>>
    \/ /\ c.method = "create_multi_image_post"
       /\ At(c.args, "images").t = "list"
       /\ \/ At(c.args, "images").c = <<>>
          \/ \E i \in 1..Len(At(c.args, "images").c) :
                 LET image == At(c.args, "images").c[i]
                 IN  /\ image.t = "dict"
                     /\ At(image, "id").t \in {"none", "str"}
                     /\ Trim(At(image, "id")) = <<>>
    \/ /\ c.method = "upload_image_binary"
       /\ At(c.args, "file_path").t = "str"
       /\ At(c.args, "file_path").s \notin Files

\* the required fields of the request a method sends
RequiredFields(method, req) ==
    CASE method = "create_post" -> <<At(req.body, "author"), At(req.body, "commentary")>>
      [] method = "create_article_post" ->
           <<At(req.body, "author"), At(req.body, "commentary"),
             At(At(At(req.body, "content"), "article"), "source"),
             At(At(At(req.body, "content"), "article"), "title"),
             At(At(At(req.body, "content"), "article"), "description")>>
      [] method = "create_reshare" ->
           <<At(req.body, "author"), At(At(req.body, "reshareContext"), "parent")>>
      [] method = "create_image_post" ->
           <<At(req.body, "author"), At(req.body, "commentary"),
             At(At(At(req.body, "content"), "media"), "id")>>
      [] method = "create_multi_image_post" ->
           LET images == At(At(At(req.body, "content"), "multiImage"), "images")
           IN  <<At(req.body, "author"), At(req.body, "commentary")>>
               \o [i \in 1..Len(images.c) |-> At(images.c[i], "id")]
      [] method = "initialize_image_upload" ->
           <<At(At(req.body, "initializeUploadRequest"), "owner")>>
      [] method = "upload_image_binary" -> <<PyStr(req.url)>>
      [] OTHER -> <<>>

\* every required field of the request is there, not blank and trimmed
WellFormed(c, req) ==
    /\ \A i \in 1..Len(RequiredFields(c.method, req)) :
           NonBlank(RequiredFields(c.method, req)[i])
    /\ c.method = "create_multi_image_post" =>
           At(At(At(req.body, "content"), "multiImage"), "images").c # <<>>
    /\ c.method = "upload_image_binary" =>
           /\ At(c.args, "file_path").s \in Files
           /\ req.body = PyStr(<<"<the bytes of>">> \o At(c.args, "file_path").s)

\* C12: a call whose arguments fail validation raises and issues no
\* request; requests leave only when a method is called, one at most, and
\* every request of a validating method has its required fields present,
\* not blank and trimmed.
C12_ValidationGatesNetwork ==
    [][/\ calls' = calls => sent' = sent
       /\ calls' # calls =>
           /\ Len(sent') <= Len(sent) + 1
           /\ FailsValidation(call') =>
                  /\ sent' = sent
                  /\ http' = NoRequest
                  /\ ~result'.ok
           /\ sent' # sent /\ call'.method \in Validating =>
                  WellFormed(call', sent'[Len(sent')])]_vars

C12_Witness ==
    /\ calls = 2
    /\ FailsValidation(call)
    /\ call.method = "create_multi_image_post"
    /\ result = Raised(Exc("ValueError", <<"images", " is required">>))
    /\ http = NoRequest
    /\ Len(sent) = 1
    /\ sent[1].verb = "PUT"

\* a standard-post call whose author and commentary are texts that are not
\* blank
ValidPost(c) ==
    /\ c.method = "create_post"
    /\ \A name \in {"author", "commentary"} :
           At(c.args, name).t = "str" /\ Strip(At(c.args, name).s) # <<>>

\* C13: create_post with an author and a commentary that are not blank,
\* and nothing else, issues exactly one request, a POST to
\* {base_url}/rest/posts whose body is public, published, open to reshares
\* and distributed to the main feed with no targets and no third parties;
\* every valid standard-post call that omits distribution sends that same
\* distribution.
C13_CreatePostDefaults ==
    [][/\ calls' = calls => sent' = sent
       /\ calls' # calls /\ ValidPost(call') =>
           /\ Len(sent') = Len(sent) + 1
           /\ http' = sent'[Len(sent')]
           /\ http'.verb = "POST"
           /\ http'.url = base_url \o <<"/rest/posts">>
           /\ ~DictHas(call'.args, <<"distribution">>) =>
                  At(http'.body, "distribution")
                    = Obj(<<"feedDistribution", "targetEntities",
                            "thirdPartyDistributionChannels">>,
                          <<Word("MAIN_FEED"), PyList(<<>>), PyList(<<>>)>>)
           /\ {call'.args.k[i] : i \in 1..Len(call'.args.k)}
                = {<<"author">>, <<"commentary">>} =>
                  /\ At(http'.body, "visibility") = Word("PUBLIC")
                  /\ At(http'.body, "lifecycleState") = Word("PUBLISHED")
                  /\ At(http'.body, "isReshareDisabledByAuthor") = PyBool(FALSE)]_vars

C13_Witness ==
    /\ calls = 1
    /\ call = CallOf("create_post", <<"author", "commentary">>,
                     <<Urn, Word("Hello world")>>)
    /\ sent = <<http>>
    /\ http.verb = "POST"
    /\ At(At(http.body, "distribution"), "feedDistribution") = Word("MAIN_FEED")
    /\ At(At(http.body, "distribution"), "targetEntities") = PyList(<<>>)

\* the standard-post call whose request is on its way
PostLeaving == http # NoRequest /\ ValidPost(call)

\* C14 as stated: the commentary of the payload is the commentary given,
\* symbol for symbol.
C14_CommentaryIdentical ==
    PostLeaving => At(http.body, "commentary") = At(call.args, "commentary")

\* C14: the commentary of the payload is the commentary given without the
\* whitespace around it: it is one stretch of the input, symbol for symbol
\* and newlines included, it begins and ends with a symbol that is no
\* whitespace, and what the input has before and after it is whitespace.
C14_CommentaryTrimmedOnly ==
    PostLeaving =>
        LET input == At(call.args, "commentary").s
            out == At(http.body, "commentary").s
        IN  /\ At(http.body, "commentary").t = "str"
            /\ out # <<>>
            /\ out[1] \notin Whitespace
            /\ out[Len(out)] \notin Whitespace
            /\ \E i \in 1..(Len(input) - Len(out) + 1) :
                   /\ out = SubSeq(input, i, i + Len(out) - 1)
                   /\ \A k \in 1..Len(input) :
                          k < i \/ k >= i + Len(out) => input[k] \in Whitespace

C14_Witness ==
    /\ PostLeaving
    /\ At(call.args, "commentary").s
         = <<"\n", "Hello", "\n", " ", "\n", "world", " ", "\n">>
    /\ At(http.body, "commentary").s = <<"Hello", "\n", " ", "\n", "world">>

\* the text of the credential-refresh error for a status
AuthRejected(status) ==
    <<"LinkedIn rejected the request ", "(status ">> \o IntToStr(status)
    \o <<"). Ensure LINKEDIN_ACCESS_TOKEN is valid and has the required scopes, ",
         "or re-run ", "<backtick>", "python -m src.mcp_server --auth", "<backtick>",
         " to refresh it.">>

\* C15: a call answered with status 401 or 403 raises the credential-refresh
\* error, whose text is fixed by the status alone and holds neither the
\* body nor a word of it; handle_message makes of it an error envelope
\* with that text as its message.
C15_AuthRejectedHidesBody ==
    answer.status \in {401, 403} =>
        /\ http = NoRequest
        /\ result = Raised(Exc("RuntimeError", AuthRejected(answer.status)))
        /\ answer.text # <<>> =>
               /\ ~IsInfix(answer.text, result.exc.msg)
               /\ ~IsInfix(Snippet(answer.text), result.exc.msg)
        /\ \A i \in 1..Len(answer.text) :
               answer.text[i] \in {"Forbidden", "token=secret", "abc", "sub", "id"} =>
                   \A j \in 1..Len(result.exc.msg) : result.exc.msg[j] # answer.text[i]
        /\ LET envelope ==
                   handle_message_resume(
                       Call(PyInt(7), "tools/call", Named(call.method, call.args)),
                       result)
           IN  /\ ~DictHas(envelope, <<"result">>)
               /\ At(envelope, "id") = PyInt(7)
               /\ At(At(envelope, "error"), "message")
                    = PyStr(AuthRejected(answer.status))

C15_Witness ==
    /\ answer = [status |-> 403, text |-> <<"Forbidden", "\n", "token=secret", " ">>]
    /\ call.method = "create_reshare"
    /\ ~result.ok
    /\ IsInfix(<<"(status ", "4", "0", "3">>, result.exc.msg)

\* a call of the client was answered, and the method is over
Answered == call # NoCall /\ http = NoRequest /\ answer # NoResponse

\* C16 as stated: whatever the method, an answer with a 2xx status and a
\* body that is empty or no JSON makes the method return a result that
\* carries the status code.
C16_StatusOnlyForEveryMethod ==
    /\ Answered
    /\ answer.status \in 200..299
    /\ ~json_loads(answer.text).ok
    => /\ result.ok
       /\ result.v.t = "dict"
       /\ At(result.v, "status") = PyInt(answer.status)

\* C17 as stated: get_profile issues exactly one request, a GET to
\* {base_url}/v2/userinfo without parameters, and returns the decoded body
\* of the answer.
C17_GetProfileCallsUserinfo ==
    [][/\ calls' # calls /\ call'.method = "get_profile" =>
           /\ sent' = Append(sent, http')
           /\ http'.verb = "GET"
           /\ http'.url = base_url \o <<"/v2/userinfo">>
           /\ http'.body = None
       /\ calls' = calls /\ call.method = "get_profile" =>
           /\ sent' = sent
           /\ answer'.status = 200 /\ json_loads(answer'.text).ok =>
                  result' = Returned(json_loads(answer'.text).v)]_vars

\* C18 as stated: over the life of a client, whatever is called and in
\* whatever order, at most one profile-lookup request is issued.
C18_IdentityResolvedOnce ==
    Cardinality({i \in 1..Len(sent) : sent[i] = GetProfileRequest}) <= 1

-----------------------------------------------------------------------------
(* Properties of the catalog and the dispatcher *)

\* the descriptors of the catalog with a name, and the words of a list
Listing(name) == {i \in 1..Len(tools.c) : At(tools.c[i], "name") = name}
WordsOf(v) == IF v.t = "list" THEN {v.c[i].s : i \in 1..Len(v.c)} ELSE {}

\* the tool call of the line in hand is over; what it named and was given
Invoked == LineInvoked /\ Len(finished) = Len(started)
NameGiven == At(At(message, "params"), "name")
ArgumentsGiven == At(At(message, "params"), "arguments")

\* the arguments hold every key the schema of the tool marks as required
RequiredGiven ==
    /\ ArgumentsGiven.t = "dict"
    /\ \A i \in Listing(NameGiven) :
           \A key \in WordsOf(At(At(tools.c[i], "inputSchema"), "required")) :
               DictHas(ArgumentsGiven, key)

\* C19 as stated: the names of the catalog are distinct; a call of a listed
\* tool with the arguments its schema requires reaches a method the client
\* has, with arguments the method takes; and a name that is not listed is
\* refused.
C19_CatalogAndDispatcherAgree ==
    /\ \A i, j \in 1..Len(tools.c) :
           At(tools.c[i], "name") = At(tools.c[j], "name") => i = j
    /\ Invoked /\ Listing(NameGiven) # {} /\ RequiredGiven =>
           \/ result.ok
           \/ result.exc.type \notin {"KeyError", "AttributeError", "TypeError"}
              /\ ~IsInfix(<<"Unknown tool: ">>, result.exc.msg)
    /\ Invoked /\ Listing(NameGiven) = {} =>
           /\ ~result.ok
           /\ result.exc.type = "ValueError"
           /\ IsInfix(<<"Unknown tool: ">>, result.exc.msg)

====
